---- MODULE Spec2Model ----
(***************************************************************************)
(* rat: a rewrite of cat.  Model of Rat::exec (src/src/lib.rs): the run    *)
(* driver that reads every source in order, chunk by chunk, and the        *)
(* per-byte transform that copies each chunk into the output buffer and    *)
(* writes it to the sink.                                                  *)
(*                                                                         *)
(* Bytes are the naturals 0..255.  One step of the model is one call of    *)
(* Source::read_to_buf together with the match arm that handles its        *)
(* result: for Ok(size) the whole inner for loop over buf[..size] and the  *)
(* closing write_all.                                                      *)
(***************************************************************************)
EXTENDS Integers, Sequences, FiniteSets, TLC

\* ------------------------------------------------------------------ bounds

\* Capacity of buf and out_buf.  The source sets 512 * 1024; the model scales
\* it down, keeping it above the longest output of a single byte
\* (7 bytes of numbering prefix, "M-" and "^X": 11 bytes).
IO_BUFSIZE == 12

\* Most sources in args.files.
MaxSources == 2

\* Most bytes all sources deliver together, per specification.
MaxInput == 3
MaxInputPlain == 3
MaxInputSqueeze == 6
MaxInputTabs == 7
MaxInputDriver == 3
MaxInputNonprinting == 3

\* ------------------------------------------------------------------- bytes

NL == 10
TAB == 9
SPACE == 32

\* Byte values the sources deliver: newline, tab, 'a', a control byte (^A),
\* a high-bit control byte (M-^J) and a high-bit printable byte (M-a).
Bytes == {NL, TAB, 97, 1, 138, 225}
BytesSqueeze == {NL, 97}
BytesTabs == {TAB, 97}
BytesDriver == {NL, 97, 138}
BytesNonprinting == {NL, TAB, 97, 1, 127, 138, 225, 255}

Min(x, y) == IF x <= y THEN x ELSE y

RECURSIVE Flatten(_)
\* The concatenation of a sequence of byte sequences.
Flatten(ss) == IF ss = <<>> THEN <<>> ELSE Head(ss) \o Flatten(Tail(ss))

\* ------------------------------------------------------------------- state

VARIABLES
    args,            \* RatArgs: the eight options
    files,           \* args.files: per source, the chunks its reads returned and its status
    src,             \* position of the for loop over args.files (1-based)
    pc,              \* "start", "run", "done" (exec returned), "panicked" (a store past
                     \* out_buf), "write_panicked" (unwrap of a failed write_all)
    index,           \* line index
    prev_byte,
    prev_prev_byte,
    sink,            \* write_to: the bytes written so far
    printed,         \* what exec printed to standard output: "none", "usage", "version"
    numbered,        \* per input byte consumed, whether a numbering prefix was emitted before it
    reported,        \* the sources for which exec has produced an error report
    write_err,       \* a write_all on the sink has returned an error
    raw,             \* RatArgs::new: the raw arguments, each a sequence of characters
    arg_i,           \* RatArgs::new: position of the for_each over raw[1..] (1-based in raw)
    rat_args,        \* RatArgs::new: the RatArgs under construction
    ppc              \* RatArgs::new: "idle", "new", "each", "returned", "panicked"

\* The variables of RatArgs::new.
pvars == <<raw, arg_i, rat_args, ppc>>

vars == <<args, files, src, pc, index, prev_byte, prev_prev_byte, sink, printed, numbered,
          reported, write_err, pvars>>

OptionNames == {"show_ends", "number_lines", "number_nonblank", "squeeze_blank",
                "show_tabs", "show_nonprinting", "version", "help"}

\* RatArgs::default(): every option false.
DefaultArgs == [o \in OptionNames |-> FALSE]

AllArgs == [OptionNames -> BOOLEAN]

With(opts) == [o \in OptionNames |-> o \in opts]

\* The bytes source i has delivered, and all bytes delivered, in source order.
Data(i) == Flatten(files[i].chunks)
Input == Flatten([i \in 1..Len(files) |-> Data(i)])

\* ------------------------------------------------------- the byte transform

\* x ^ 0x40 on a byte.
Xor40(x) == IF (x \div 64) % 2 = 1 THEN x - 64 ELSE x + 64

RECURSIVE Decimal(_)
\* The decimal digits of n, as ASCII bytes.
Decimal(n) == IF n < 10 THEN <<48 + n>> ELSE Append(Decimal(n \div 10), 48 + (n % 10))

RECURSIVE Spaces(_)
Spaces(k) == IF k <= 0 THEN <<>> ELSE <<SPACE>> \o Spaces(k - 1)

\* format!("{index:6} "): right-justified in width 6, then one space.
Format(n) == Spaces(6 - Len(Decimal(n))) \o Decimal(n) \o <<SPACE>>

\* The mid-chunk flush: if out_pos >= out_buf.len(), write out_buf and reset out_pos.
Flush(st) ==
    IF Len(st.out_buf) >= IO_BUFSIZE
    THEN [st EXCEPT !.flushed = @ \o st.out_buf, !.out_buf = <<>>]
    ELSE st

\* A store of bs at out_buf[out_pos..]: an index past the capacity panics.
Put(st, bs) ==
    IF st.panic \/ Len(st.out_buf) + Len(bs) > IO_BUFSIZE
    THEN [st EXCEPT !.panic = TRUE]
    ELSE [st EXCEPT !.out_buf = @ \o bs]

SqueezeDrops_Unguarded(a, b, prev, pprev) ==
    b = NL /\ prev = NL /\ pprev = NL

SqueezeDrops_NoPrevPrev(a, b, prev, pprev) ==
    a.squeeze_blank /\ b = NL /\ prev = NL

\* The squeeze-blank test.
SqueezeDrops(a, b, prev, pprev) ==
    a.squeeze_blank /\ b = NL /\ prev = NL /\ pprev = NL

\* The numbering test.
NumberingApplies(a, b, prev) ==
    /\ \/ a.number_lines /\ ~a.number_nonblank
       \/ a.number_nonblank /\ b # NL
    /\ prev = NL

\* One iteration of the for loop over buf[..size], on byte b.
TransformByte(a, st0, b) ==
    IF st0.panic THEN st0 ELSE
    LET s1 == Flush(st0) IN
    IF SqueezeDrops(a, b, s1.prev_byte, s1.prev_prev_byte)
    THEN [s1 EXCEPT !.numbered = Append(@, FALSE)]
    ELSE
      LET num  == NumberingApplies(a, b, s1.prev_byte)
          s2   == IF num THEN [Put(s1, Format(s1.index)) EXCEPT !.index = @ + 1] ELSE s1
          s2g  == [s2 EXCEPT !.numbered = Append(@, num /\ ~s2.panic)]
          hi   == a.show_nonprinting /\ b >= 128
          s3   == IF hi THEN Put(s2g, <<77, 45>>) ELSE s2g
          byte == IF hi THEN b - 128 ELSE b
      IN IF a.show_nonprinting /\ (byte < 32 \/ byte = 127)
         THEN Put(s3, <<94, Xor40(byte)>>)
         ELSE LET s4 == IF a.show_tabs /\ byte = TAB
                        THEN Put(s3, <<94, 73>>)
                        ELSE Put(s3, <<byte>>)
              IN [s4 EXCEPT !.prev_prev_byte = s3.prev_byte, !.prev_byte = byte]

RECURSIVE TransformChunk(_, _, _)
\* The for loop over buf[..size].
TransformChunk(a, st, chunk) ==
    IF chunk = <<>> THEN st
    ELSE TransformChunk(a, TransformByte(a, st, Head(chunk)), Tail(chunk))

\* The transform state at the start of a chunk: a fresh out_buf, out_pos = 0.
ChunkStart(i, p, pp) ==
    [out_buf |-> <<>>, flushed |-> <<>>, index |-> i, prev_byte |-> p,
     prev_prev_byte |-> pp, panic |-> FALSE, numbered |-> <<>>]

\* -------------------------------------------------------------- the driver

FreshSource == [chunks |-> <<>>, status |-> "fresh"]

InitWith(argset) ==
    /\ args \in argset
    /\ files \in UNION {[1..n -> {FreshSource}] : n \in 0..MaxSources}
    /\ src = 1
    /\ pc = "start"
    /\ index = 1
    /\ prev_byte = NL
    /\ prev_prev_byte = SPACE
    /\ sink = <<>>
    /\ printed = "none"
    /\ numbered = <<>>
    /\ reported = {}
    /\ write_err = FALSE
    /\ raw = <<>>
    /\ arg_i = 0
    /\ rat_args = [options |-> DefaultArgs, files |-> <<>>]
    /\ ppc = "idle"

Start_NoShortCircuit ==
    /\ pc = "start"
    /\ printed' = IF args.help THEN "usage" ELSE IF args.version THEN "version" ELSE "none"
    /\ pc' = IF Len(files) = 0 THEN "done" ELSE "run"
    /\ UNCHANGED <<args, files, src, index, prev_byte, prev_prev_byte, sink, numbered,
                   reported, write_err, pvars>>

\* Entry of exec: help and version return before any source is touched.
Start ==
    /\ pc = "start"
    /\ printed' = IF args.help THEN "usage" ELSE IF args.version THEN "version" ELSE "none"
    /\ pc' = IF args.help \/ args.version \/ Len(files) = 0 THEN "done" ELSE "run"
    /\ UNCHANGED <<args, files, src, index, prev_byte, prev_prev_byte, sink, numbered,
                   reported, write_err, pvars>>

\* The loop moves to the next source, or exec returns after the last one.
Break(status) ==
    /\ files' = [files EXCEPT ![src].status = status]
    /\ src' = src + 1
    /\ pc' = IF src = Len(files) THEN "done" ELSE "run"
    /\ UNCHANGED <<args, index, prev_byte, prev_prev_byte, sink, printed, numbered,
                   reported, write_err, pvars>>

\* read_to_buf returns Ok(0).
ReadEof ==
    /\ pc = "run"
    /\ Break("eof")

ReadErr_Aborts ==
    /\ pc = "run"
    /\ files' = [files EXCEPT ![src].status = "err"]
    /\ pc' = "done"
    /\ UNCHANGED <<args, src, index, prev_byte, prev_prev_byte, sink, printed, numbered,
                   reported, write_err, pvars>>

\* read_to_buf returns Err: the open failed, or the read did.
ReadErr ==
    /\ pc = "run"
    /\ Break("err")

\* read_to_buf returns Ok(size), size > 0: transform buf[..size], write out_buf[..out_pos].
ReadChunk(alphabet, maxInput) ==
    /\ pc = "run"
    /\ \E size \in 1..Min(IO_BUFSIZE, maxInput - Len(Input)) :
         \E chunk \in [1..size -> alphabet] :
           LET st == TransformChunk(args, ChunkStart(index, prev_byte, prev_prev_byte), chunk)
           IN /\ files' = [files EXCEPT ![src].chunks = Append(@, chunk),
                                        ![src].status = "open"]
              /\ numbered' = numbered \o st.numbered
              /\ IF st.panic
                 THEN /\ pc' = "panicked"
                      /\ sink' = sink \o st.flushed
                      /\ UNCHANGED <<index, prev_byte, prev_prev_byte>>
                 ELSE /\ pc' = pc
                      /\ sink' = sink \o st.flushed \o st.out_buf
                      /\ index' = st.index
                      /\ prev_byte' = st.prev_byte
                      /\ prev_prev_byte' = st.prev_prev_byte
    /\ UNCHANGED <<args, src, printed, reported, write_err, pvars>>

WriteFails_Ignored(alphabet, maxInput) ==
    /\ pc = "run"
    /\ \E size \in 1..Min(IO_BUFSIZE, maxInput - Len(Input)) :
         \E chunk \in [1..size -> alphabet] :
           LET st    == TransformChunk(args, ChunkStart(index, prev_byte, prev_prev_byte), chunk)
               total == IF st.panic THEN st.flushed ELSE st.flushed \o st.out_buf
           IN \E done \in 0..(Len(total) - 1) :
                /\ files' = [files EXCEPT ![src].chunks = Append(@, chunk),
                                             ![src].status = "open"]
                /\ sink' = sink \o SubSeq(total, 1, done)
                /\ numbered' = IF done < Len(st.flushed) THEN numbered
                               ELSE numbered \o st.numbered
    /\ pc' = "run"
    /\ write_err' = TRUE
    /\ UNCHANGED <<args, src, index, prev_byte, prev_prev_byte, printed, reported, pvars>>

\* read_to_buf returns Ok(size) and a write_all of that chunk returns an error:
\* the mid-chunk flush, after `done` bytes of it were written, or the closing
\* write.  unwrap panics; the bytes the failed call had already written stay.
WriteFails(alphabet, maxInput) ==
    /\ pc = "run"
    /\ \E size \in 1..Min(IO_BUFSIZE, maxInput - Len(Input)) :
         \E chunk \in [1..size -> alphabet] :
           LET st    == TransformChunk(args, ChunkStart(index, prev_byte, prev_prev_byte), chunk)
               total == IF st.panic THEN st.flushed ELSE st.flushed \o st.out_buf
           IN \E done \in 0..(Len(total) - 1) :
                /\ files' = [files EXCEPT ![src].chunks = Append(@, chunk),
                                             ![src].status = "open"]
                /\ sink' = sink \o SubSeq(total, 1, done)
                /\ numbered' = IF done < Len(st.flushed) THEN numbered
                               ELSE numbered \o st.numbered
    /\ pc' = "write_panicked"
    /\ write_err' = TRUE
    /\ UNCHANGED <<args, src, index, prev_byte, prev_prev_byte, printed, reported, pvars>>

\* The steps of exec with a sink that accepts every write.
Step(alphabet, maxInput) ==
    \/ Start
    \/ ReadChunk(alphabet, maxInput)
    \/ ReadEof
    \/ ReadErr

\* The steps of exec with a sink whose writes may fail.
StepFailing(alphabet, maxInput) ==
    \/ Step(alphabet, maxInput)
    \/ WriteFails(alphabet, maxInput)

Init == InitWith(AllArgs)
Next == Step(Bytes, MaxInput)
Spec == Init /\ [][Next]_vars

InitPlain == InitWith({DefaultArgs})
NextPlain == Step(Bytes, MaxInputPlain)
SpecPlain == InitPlain /\ [][NextPlain]_vars

InitSqueeze == InitWith({With({"squeeze_blank"})})
NextSqueeze == Step(BytesSqueeze, MaxInputSqueeze)
SpecSqueeze == InitSqueeze /\ [][NextSqueeze]_vars

InitTabs == InitWith({With({"show_tabs"})})
NextTabs == Step(BytesTabs, MaxInputTabs)
SpecTabs == InitTabs /\ [][NextTabs]_vars

\* The driver: help and version, numbering and escaping on or off, read
\* errors and a sink that may fail.
DriverArgs == {With(S) : S \in SUBSET {"help", "version", "number_lines", "show_nonprinting"}}
InitDriver == InitWith(DriverArgs)
NextDriver == StepFailing(BytesDriver, MaxInputDriver)
SpecDriver == InitDriver /\ [][NextDriver]_vars

\* show_nonprinting with and without numbering, show_tabs and squeeze_blank.
NonprintingArgs ==
    {With({"show_nonprinting"} \cup S) :
        S \in SUBSET {"number_lines", "number_nonblank", "show_tabs", "squeeze_blank"}}
InitNonprinting == InitWith(NonprintingArgs)
NextNonprinting == Step(BytesNonprinting, MaxInputNonprinting)
SpecNonprinting == InitNonprinting /\ [][NextNonprinting]_vars

\* ------------------------------------------------------------- RatArgs::new

\* Most arguments after the program name, and most letters after the '-' of a
\* bundle of short flags.
MaxArgs == 2
MaxBundle == 3

ProgName == <<"r", "a", "t">>

LongHelp == <<"-", "-", "h", "e", "l", "p">>
LongVersion == <<"-", "-", "v", "e", "r", "s", "i", "o", "n">>
LongShowTabs == <<"-", "-", "s", "h", "o", "w", "-", "t", "a", "b", "s">>
LongNumber == <<"-", "-", "n", "u", "m", "b", "e", "r">>
LongNumberNonblank ==
    <<"-", "-", "n", "u", "m", "b", "e", "r", "-", "n", "o", "n", "b", "l", "a", "n", "k">>
LongShowEnds == <<"-", "-", "s", "h", "o", "w", "-", "e", "n", "d", "s">>
LongShowNonprinting ==
    <<"-", "-", "s", "h", "o", "w", "-", "n", "o", "n", "p", "r", "i", "n", "t", "i", "n", "g">>
LongSqueezeBlank ==
    <<"-", "-", "s", "q", "u", "e", "e", "z", "e", "-", "b", "l", "a", "n", "k">>
LongShowAll == <<"-", "-", "s", "h", "o", "w", "-", "a", "l", "l">>

LongFlags == {LongHelp, LongVersion, LongShowTabs, LongNumber, LongNumberNonblank,
              LongShowEnds, LongShowNonprinting, LongSqueezeBlank, LongShowAll}

\* The letters of the short flags that set options.
ShortLetters == {"A", "b", "e", "E", "n", "s", "t", "T", "v"}

\* The arguments the model passes: every long flag, every short flag alone,
\* -u, an unknown short flag, "-", "--", "---", an unknown long flag, two file
\* paths (one holding "--"), and bundles of short letters, u and x.
OtherArgs == {<<"-", "u">>, <<"-", "x">>, <<"-">>, <<"-", "-">>, <<"-", "-", "-">>,
              <<"-", "-", "b", "o", "g", "u", "s">>, <<"f">>, <<"a", "-", "-", "b">>}
BaseArgs == LongFlags \cup {<<"-", c>> : c \in ShortLetters} \cup OtherArgs
Bundles ==
    UNION {{<<"-">> \o ls : ls \in [1..n -> ShortLetters \cup {"u", "x"}]} : n \in 2..MaxBundle}
ArgLists ==
    UNION {{<<ProgName>> \o as : as \in [1..n -> BaseArgs]} : n \in 0..MaxArgs}
    \cup {<<ProgName, b>> : b \in Bundles}

\* str::contains on character sequences.
Contains(arg, pat) ==
    \E i \in 1..(Len(arg) - Len(pat) + 1) : SubSeq(arg, i, i + Len(pat) - 1) = pat

SetOptions(ra, opts) ==
    [ra EXCEPT !.options = [o \in OptionNames |-> @[o] \/ o \in opts]]

PushSource(ra, source) == [ra EXCEPT !.files = Append(@, source)]

StdinSource == [kind |-> "Stdin"]
FileSource(path) == [kind |-> "File", path |-> path]

\* A RatArgs, or the mark of a panic.
Panic == [panic |-> TRUE]
Panicked(ra) == "panic" \in DOMAIN ra

\* The match on a long flag's whole text.
LongFlag(ra, arg) ==
    CASE arg = LongHelp -> SetOptions(ra, {"help"})
      [] arg = LongVersion -> SetOptions(ra, {"version"})
      [] arg = LongShowTabs -> SetOptions(ra, {"show_tabs"})
      [] arg = LongNumber -> SetOptions(ra, {"number_lines"})
      [] arg = LongNumberNonblank -> SetOptions(ra, {"number_nonblank"})
      [] arg = LongShowEnds -> SetOptions(ra, {"show_ends"})
      [] arg = LongShowNonprinting -> SetOptions(ra, {"show_nonprinting"})
      [] arg = LongSqueezeBlank -> SetOptions(ra, {"squeeze_blank"})
      [] arg = LongShowAll -> SetOptions(ra, {"show_nonprinting", "show_ends", "show_tabs"})
      [] OTHER -> ra

ShortLetter_tOnlyTabs(ra, c) ==
    IF Panicked(ra) THEN ra ELSE
    CASE c = "b" -> SetOptions(ra, {"number_nonblank"})
      [] c = "E" -> SetOptions(ra, {"show_ends"})
      [] c = "n" -> SetOptions(ra, {"number_lines"})
      [] c = "s" -> SetOptions(ra, {"squeeze_blank"})
      [] c = "T" -> SetOptions(ra, {"show_tabs"})
      [] c = "u" -> Panic
      [] c = "v" -> SetOptions(ra, {"show_nonprinting"})
      [] c = "t" -> SetOptions(ra, {"show_tabs"})
      [] c = "e" -> SetOptions(ra, {"show_nonprinting", "show_ends"})
      [] c = "A" -> SetOptions(ra, {"show_nonprinting", "show_ends", "show_tabs"})
      [] OTHER -> ra

\* The match on one character of a short-flag argument; todo!() panics.
ShortLetter(ra, c) ==
    IF Panicked(ra) THEN ra ELSE
    CASE c = "b" -> SetOptions(ra, {"number_nonblank"})
      [] c = "E" -> SetOptions(ra, {"show_ends"})
      [] c = "n" -> SetOptions(ra, {"number_lines"})
      [] c = "s" -> SetOptions(ra, {"squeeze_blank"})
      [] c = "T" -> SetOptions(ra, {"show_tabs"})
      [] c = "u" -> Panic
      [] c = "v" -> SetOptions(ra, {"show_nonprinting"})
      [] c = "t" -> SetOptions(ra, {"show_tabs", "show_nonprinting"})
      [] c = "e" -> SetOptions(ra, {"show_nonprinting", "show_ends"})
      [] c = "A" -> SetOptions(ra, {"show_nonprinting", "show_ends", "show_tabs"})
      [] OTHER -> ra

RECURSIVE ShortFlags(_, _)
\* chars.for_each over the characters after the first.
ShortFlags(ra, cs) ==
    IF cs = <<>> THEN ra ELSE ShortFlags(ShortLetter(ra, Head(cs)), Tail(cs))

\* The closure of slice.iter().for_each on one argument.  &arg[1..=2] is
\* evaluated when arg contains "--" and panics on an argument shorter than 3.
ParseArg(ra, arg) ==
    IF Contains(arg, <<"-", "-">>) /\ Len(arg) < 3 THEN Panic
    ELSE IF Contains(arg, <<"-", "-">>) /\ SubSeq(arg, 2, 3) = <<"-", "-">>
    THEN LongFlag(ra, arg)
    ELSE IF arg = <<"-">> /\ Len(arg) = 1
    THEN PushSource(ra, StdinSource)
    ELSE IF Contains(arg, <<"-">>) /\ arg[1] = "-"
    THEN ShortFlags(ra, Tail(arg))
    ELSE PushSource(ra, FileSource(arg))

DefaultRatArgs == [options |-> DefaultArgs, files |-> <<>>]

RECURSIVE ParseAll(_, _)
\* The for_each over the arguments as.
ParseAll(ra, as) ==
    IF as = <<>> \/ Panicked(ra) THEN ra ELSE ParseAll(ParseArg(ra, Head(as)), Tail(as))

\* What RatArgs::new(r) returns, or Panic.
NewResult(r) ==
    IF Len(r) = 1 THEN PushSource(DefaultRatArgs, StdinSource)
    ELSE ParseAll(DefaultRatArgs, Tail(r))

\* The variables of exec, untouched while the arguments are parsed.
evars == <<args, files, src, pc, index, prev_byte, prev_prev_byte, sink, printed, numbered,
           reported, write_err>>

InitArgs ==
    /\ raw \in ArgLists
    /\ arg_i = 2
    /\ rat_args = DefaultRatArgs
    /\ ppc = "new"
    /\ args = DefaultArgs
    /\ files = <<>>
    /\ src = 1
    /\ pc = "idle"
    /\ index = 1
    /\ prev_byte = NL
    /\ prev_prev_byte = SPACE
    /\ sink = <<>>
    /\ printed = "none"
    /\ numbered = <<>>
    /\ reported = {}
    /\ write_err = FALSE

\* Entry of RatArgs::new: with no argument, standard input is the one source.
NewBegin ==
    /\ ppc = "new"
    /\ IF Len(raw) = 1
       THEN /\ rat_args' = PushSource(rat_args, StdinSource)
            /\ ppc' = "returned"
       ELSE /\ rat_args' = rat_args
            /\ ppc' = "each"
    /\ UNCHANGED <<raw, arg_i, evars>>

\* One iteration of the for_each over raw[1..].
EachArg ==
    /\ ppc = "each"
    /\ LET ra == ParseArg(rat_args, raw[arg_i])
       IN IF Panicked(ra)
          THEN /\ ppc' = "panicked"
               /\ UNCHANGED <<rat_args, arg_i>>
          ELSE /\ rat_args' = ra
               /\ arg_i' = arg_i + 1
               /\ ppc' = IF arg_i = Len(raw) THEN "returned" ELSE "each"
    /\ UNCHANGED <<raw, evars>>

NextArgs ==
    \/ NewBegin
    \/ EachArg

SpecArgs == InitArgs /\ [][NextArgs]_vars

\* ------------------------------------------------------------ claims C1..C10

\* The bytes of s other than newlines, in order.
NonNewlines(s) == SelectSeq(s, LAMBDA x : x # NL)

\* Position i of s is the first byte of a line.
LineStart(s, i) == i = 1 \/ s[i - 1] = NL

\* Position i of s ends an empty line.
BlankAt(s, i) == i >= 1 /\ s[i] = NL /\ LineStart(s, i)

\* The numbering prefix of line number k as the claims give it: k in decimal,
\* right-justified in six columns, and one space.
PrefixRef(k) ==
    IF k < 10 THEN <<32, 32, 32, 32, 32, 48 + k, 32>>
    ELSE <<32, 32, 32, 32, 48 + (k \div 10), 48 + (k % 10), 32>>

\* C1: with every option false the sink holds exactly the bytes the sources
\* delivered, in source order, whatever the chunks were, and the run never fails.
C1_PlainCopy == pc # "panicked" /\ sink = Input

\* C1's case: two sources, the first read in two chunks, high-bit, newline and
\* tab bytes copied unchanged.
C1_Witness ==
    /\ pc = "done"
    /\ Len(files) = 2
    /\ Len(files[1].chunks) = 2
    /\ Len(files[2].chunks) = 1
    /\ sink = <<225, NL, TAB>>

RECURSIVE NumberAllFrom(_, _)
\* s with PrefixRef(k) before the first byte of its k-th line, from position i on.
NumberAllFrom(s, i) ==
    IF i > Len(s) THEN <<>>
    ELSE (IF LineStart(s, i)
          THEN PrefixRef(Cardinality({j \in 1..i : LineStart(s, j)}))
          ELSE <<>>) \o <<s[i]>> \o NumberAllFrom(s, i + 1)

NumberAllRef(s) == NumberAllFrom(s, 1)

\* C2: with only number_lines set, for every input the run completes and the
\* sink holds the input with the prefix of k before the first byte of the k-th
\* line, blank lines included.
C2_NumberLines ==
    args = With({"number_lines"}) =>
        /\ pc # "panicked"
        /\ pc \in {"run", "done"} => sink = NumberAllRef(Input)

RECURSIVE NumberNonblankFrom(_, _)
\* s with PrefixRef(k) before the first byte of its k-th non-empty line.
NumberNonblankFrom(s, i) ==
    IF i > Len(s) THEN <<>>
    ELSE (IF LineStart(s, i) /\ s[i] # NL
          THEN PrefixRef(Cardinality({j \in 1..i : LineStart(s, j) /\ s[j] # NL}))
          ELSE <<>>) \o <<s[i]>> \o NumberNonblankFrom(s, i + 1)

NumberNonblankRef(s) == NumberNonblankFrom(s, 1)

\* C3: with number_nonblank set (number_lines set or not) and nothing else, for
\* every input the run completes and the sink holds the input with the prefix of
\* k before the first byte of the k-th non-empty line and nothing before an
\* empty line.
C3_NumberNonblank ==
    args \in {With({"number_nonblank"}), With({"number_nonblank", "number_lines"})} =>
        /\ pc # "panicked"
        /\ pc \in {"run", "done"} => sink = NumberNonblankRef(Input)

RECURSIVE SqueezeFrom(_, _)
\* s without the newline of every empty line that follows an empty line.
SqueezeFrom(s, i) ==
    IF i > Len(s) THEN <<>>
    ELSE (IF BlankAt(s, i) /\ BlankAt(s, i - 1) THEN <<>> ELSE <<s[i]>>)
         \o SqueezeFrom(s, i + 1)

SqueezeRef(s) == SqueezeFrom(s, 1)

\* C4: with only squeeze_blank set the sink keeps every non-newline byte in
\* order and keeps one empty line of every run of empty lines: it never holds
\* three newlines in a row, never begins with two, and the run never fails.
C4_SqueezeBlank ==
    /\ pc # "panicked"
    /\ sink = SqueezeRef(Input)
    /\ NonNewlines(sink) = NonNewlines(Input)
    /\ \A i \in 1..Len(sink) - 2 : ~(sink[i] = NL /\ sink[i + 1] = NL /\ sink[i + 2] = NL)
    /\ ~(Len(sink) >= 2 /\ sink[1] = NL /\ sink[2] = NL)

\* C4's case: "a\n\n\n\nb" read in two chunks gives "a\n\nb".
C4_Witness ==
    /\ pc = "done"
    /\ Input = <<97, NL, NL, NL, NL, 97>>
    /\ Len(files[1].chunks) = 2
    /\ sink = <<97, NL, NL, 97>>

RECURSIVE ShowEndsFrom(_, _)
\* s with '$' before every newline.
ShowEndsFrom(s, i) ==
    IF i > Len(s) THEN <<>>
    ELSE (IF s[i] = NL THEN <<36, NL>> ELSE <<s[i]>>) \o ShowEndsFrom(s, i + 1)

\* C5: with only show_ends set, every newline of the input is written as '$'
\* and the newline, and every other byte unchanged.
C5_ShowEnds ==
    (args = With({"show_ends"}) /\ pc # "start") =>
        /\ pc # "panicked"
        /\ sink = ShowEndsFrom(Input, 1)

RECURSIVE ShowTabsFrom(_, _)
\* s with "^I" for every tab.
ShowTabsFrom(s, i) ==
    IF i > Len(s) THEN <<>>
    ELSE (IF s[i] = TAB THEN <<94, 73>> ELSE <<s[i]>>) \o ShowTabsFrom(s, i + 1)

\* C6: with only show_tabs set, for every input the run completes and every
\* tab is written as "^I", every other byte unchanged, in order.
C6_ShowTabs ==
    args = With({"show_tabs"}) =>
        /\ pc # "panicked"
        /\ pc \in {"run", "done"} => sink = ShowTabsFrom(Input, 1)

\* C7: with only show_nonprinting set, newline and tab are written unchanged:
\* an input of newlines and tabs alone is copied as it is.
C7_NonprintingKeepsLfdTab ==
    (args = With({"show_nonprinting"}) /\ pc \in {"run", "done"}
        /\ \A i \in 1..Len(Input) : Input[i] \in {NL, TAB})
    => sink = Input

RECURSIVE ByteWise(_, _, _)
\* The output of the transform on s fed one byte per chunk.
ByteWise(a, st, s) ==
    IF s = <<>> THEN <<>>
    ELSE LET t == TransformChunk(a, ChunkStart(st.index, st.prev_byte, st.prev_prev_byte),
                                 <<Head(s)>>)
         IN t.flushed \o t.out_buf \o ByteWise(a, t, Tail(s))

\* C8: the sink depends only on the options and the concatenated input, not on
\* the chunks or the source boundaries: it is what chunks of size 1 give.
C8_ChunkInvariance ==
    (~args.help /\ ~args.version) =>
        sink = ByteWise(args, ChunkStart(1, NL, SPACE), Input)

\* C9: no store into out_buf goes past its capacity.
C9_NoOverflow == pc # "panicked"

\* C10: between two numbering prefixes an input newline was consumed.
C10_OncePerLine ==
    \A i, j \in 1..Len(numbered) :
        (i < j /\ numbered[i] /\ numbered[j]) => \E k \in i..(j - 1) : Input[k] = NL

\* ----------------------------------------------------------- claims C11..C14

\* s is an initial part of t.
IsPrefix(s, t) == Len(s) <= Len(t) /\ SubSeq(t, 1, Len(s)) = s

\* The step in which a read of the current source returns an error.
ErrorStep == files[src].status # "err" /\ files'[src].status = "err"

\* C11: after a read of source i returns an error no further read is made on
\* source i; the error step writes nothing, leaves the transform state as an
\* end-of-stream would and moves the loop to the next source (exec returns only
\* after the last one); the sink only ever grows; and exec returns only when
\* every source has reached its end-of-stream or an error.
C11_ReadErrorSkipsSource ==
    [][ /\ \A i \in 1..Len(files) : files[i].status = "err" => files'[i] = files[i]
        /\ (pc = "run" /\ ErrorStep) =>
              /\ sink' = sink
              /\ <<index', prev_byte', prev_prev_byte'>> = <<index, prev_byte, prev_prev_byte>>
              /\ src' = src + 1
              /\ pc' = IF src < Len(files) THEN "run" ELSE "done"
        /\ IsPrefix(sink, sink')
        /\ (pc' = "done" /\ ~args.help /\ ~args.version) =>
              \A i \in 1..Len(files) : files'[i].status \in {"eof", "err"}
      ]_vars

\* C11's case: the first source fails after delivering bytes, the second is
\* still read to its end-of-stream, and the sink holds the output of both.
C11_Witness ==
    /\ pc = "done"
    /\ Len(files) = 2
    /\ files[1].status = "err" /\ files[1].chunks # <<>>
    /\ files[2].status = "eof" /\ files[2].chunks # <<>>
    /\ args = DefaultArgs
    /\ sink = Input

\* C12: every source whose read returned an error has an error report.
C12_ErrorsReported ==
    \A i \in 1..Len(files) : files[i].status = "err" => i \in reported

\* C13: once a write to the sink has failed the run is over: the failure
\* panics, and no source is read and nothing is written after it.
C13_WriteFailureFatal ==
    [][ /\ write_err => (files' = files /\ sink' = sink /\ src' = src /\ pc' = pc)
        /\ write_err' => pc' = "write_panicked"
      ]_vars

\* C13's case: a write fails part-way while the first of two sources is read;
\* the second source is never touched.
C13_Witness ==
    /\ write_err
    /\ pc = "write_panicked"
    /\ Len(files) = 2
    /\ src = 1
    /\ sink # <<>>
    /\ files[2] = FreshSource

\* C14: with help or version set no source is read and nothing is written to
\* the sink, whatever the sources and the other options.
C14_HelpVersionShortCircuit ==
    (args.help \/ args.version) =>
        /\ \A i \in 1..Len(files) : files[i] = FreshSource
        /\ sink = <<>>
        /\ pc \in {"start", "done"}

\* C14's case: exec has returned with version set, another option set and two
\* sources untouched.
C14_Witness ==
    /\ pc = "done"
    /\ args.version /\ ~args.help /\ args.number_lines
    /\ Len(files) = 2
    /\ printed = "version"

\* ----------------------------------------------------------- claims C15..C19

\* The options each long flag sets, as the option table gives them.
LongTable(arg) ==
    CASE arg = LongShowAll -> {"show_nonprinting", "show_ends", "show_tabs"}
      [] arg = LongNumberNonblank -> {"number_nonblank"}
      [] arg = LongShowEnds -> {"show_ends"}
      [] arg = LongNumber -> {"number_lines"}
      [] arg = LongSqueezeBlank -> {"squeeze_blank"}
      [] arg = LongShowTabs -> {"show_tabs"}
      [] arg = LongShowNonprinting -> {"show_nonprinting"}
      [] arg = LongHelp -> {"help"}
      [] arg = LongVersion -> {"version"}

\* C15: the program name and one long flag give exactly the options of that
\* flag, every other option false and no source.
C15_LongFlags ==
    (Len(raw) = 2 /\ raw[2] \in LongFlags) =>
        /\ ppc # "panicked"
        /\ ppc = "returned" =>
              rat_args = [options |-> With(LongTable(raw[2])), files |-> <<>>]

\* The options each short letter sets, as the option table gives them.
ShortTable(c) ==
    CASE c = "E" -> {"show_ends"}
      [] c = "b" -> {"number_nonblank"}
      [] c = "n" -> {"number_lines"}
      [] c = "s" -> {"squeeze_blank"}
      [] c = "T" -> {"show_tabs"}
      [] c = "v" -> {"show_nonprinting"}
      [] c = "e" -> {"show_nonprinting", "show_ends"}
      [] c = "t" -> {"show_nonprinting", "show_tabs"}
      [] c = "A" -> {"show_nonprinting", "show_ends", "show_tabs"}

\* arg is '-' and one or more letters, all of them in the set letters.
IsBundleOf(arg, letters) ==
    Len(arg) >= 2 /\ arg[1] = "-" /\ \A j \in 2..Len(arg) : arg[j] \in letters

RECURSIVE Unbundle(_)
\* The arguments as with every bundle "-xyz" replaced by "-x", "-y", "-z".
Unbundle(as) ==
    IF as = <<>> THEN <<>>
    ELSE [j \in 1..(Len(Head(as)) - 1) |-> <<"-", Head(as)[j + 1]>>] \o Unbundle(Tail(as))

RECURSIVE StripU(_)
\* The arguments as without the letter u in the bundles of short flags, and
\* without the arguments that were -u alone.
StripU(as) ==
    IF as = <<>> THEN <<>>
    ELSE LET a == Head(as)
             b == SelectSeq(a, LAMBDA c : c # "u")
         IN IF ~IsBundleOf(a, ShortLetters \cup {"u"}) THEN <<a>> \o StripU(Tail(as))
            ELSE IF b = <<"-">> THEN StripU(Tail(as))
            ELSE <<b>> \o StripU(Tail(as))

\* C17: with -u among the arguments, alone or inside a bundle of short flags,
\* RatArgs::new returns, and returns what it returns without it.
C17_UIgnored ==
    (ppc # "idle" /\ \E i \in 2..Len(raw) :
        IsBundleOf(raw[i], ShortLetters \cup {"u"}) /\ \E j \in 2..Len(raw[i]) : raw[i][j] = "u")
    => /\ ppc # "panicked"
       /\ ppc = "returned" => rat_args = NewResult(<<ProgName>> \o StripU(Tail(raw)))

\* arg is positional: "-", or not starting with '-'.
Positional(arg) == arg = <<"-">> \/ arg = <<>> \/ arg[1] # "-"

\* The sources the command line asks for: its positional arguments in order,
\* "-" as standard input, and standard input alone when there is none.
ExpectedSources(r) ==
    LET pos == SelectSeq(Tail(r), Positional)
    IN IF pos = <<>> THEN <<StdinSource>>
       ELSE [k \in 1..Len(pos) |-> IF pos[k] = <<"-">> THEN StdinSource ELSE FileSource(pos[k])]

\* C18: the source list RatArgs::new returns is the positional arguments in
\* order, and one standard-input source when there is no positional argument.
C18_Sources ==
    ppc = "returned" => rat_args.files = ExpectedSources(raw)

\* arg is a flag the option table does not have: "--" and more that is no long
\* flag, or '-' and letters none of which is a short flag.
Unrecognized(arg) ==
    \/ Len(arg) >= 2 /\ arg[1] = "-" /\ arg[2] = "-" /\ arg \notin LongFlags
    \/ Len(arg) >= 2 /\ arg[1] = "-" /\ arg[2] # "-"
         /\ \A j \in 2..Len(arg) : arg[j] \notin ShortLetters \cup {"u"}

\* C19: when every argument is an unrecognized flag or does not start with
\* '-', RatArgs::new returns with every option false and with exactly the
\* arguments that do not start with '-' as file sources, in order.
C19_UnrecognizedIgnored ==
    (ppc # "idle" /\ Len(raw) >= 2
        /\ \A i \in 2..Len(raw) : Unrecognized(raw[i]) \/ raw[i] = <<>> \/ raw[i][1] # "-")
    => /\ ppc # "panicked"
       /\ ppc = "returned" =>
             LET paths == SelectSeq(Tail(raw), LAMBDA a : a = <<>> \/ a[1] # "-")
             IN rat_args = [options |-> DefaultArgs,
                            files |-> [k \in 1..Len(paths) |-> FileSource(paths[k])]]

\* ------------------------------------------------------------------ claim C20

\* The rendering of one byte b under show_nonprinting, as the rule states it:
\* "M-" and b - 128 for b >= 128, then '^' and the value XOR 0x40 for a value
\* below 32 or equal to 127 (escaped), and the value itself otherwise.
NonprintingByte(b) ==
    LET v   == IF b >= 128 THEN b - 128 ELSE b
        esc == v < 32 \/ v = 127
    IN [out     |-> (IF b >= 128 THEN <<77, 45>> ELSE <<>>)
                    \o (IF esc THEN <<94, IF v = 127 THEN 63 ELSE v + 64>> ELSE <<v>>),
        escaped |-> esc,
        value   |-> v]

RECURSIVE NonprintingFrom(_, _, _)
\* The output and the tracking bytes after the bytes of s from state st, by the
\* rule: a byte squeeze-blank drops leaves everything as it is; an escaped byte
\* leaves the tracking bytes as they are; any other byte becomes the previous
\* byte. The numbering prefix goes before the rendering of the byte.
NonprintingFrom(a, s, st) ==
    IF s = <<>> THEN st
    ELSE LET b == Head(s)
             r == NonprintingByte(b)
         IN IF a.squeeze_blank /\ b = NL /\ st.prev_byte = NL /\ st.prev_prev_byte = NL
            THEN NonprintingFrom(a, Tail(s), st)
            ELSE LET num == NumberingApplies(a, b, st.prev_byte)
                     out == st.out \o (IF num THEN Format(st.index) ELSE <<>>) \o r.out
                     idx == IF num THEN st.index + 1 ELSE st.index
                 IN NonprintingFrom(a, Tail(s),
                        IF r.escaped
                        THEN [st EXCEPT !.out = out, !.index = idx]
                        ELSE [out |-> out, index |-> idx, prev_byte |-> r.value,
                              prev_prev_byte |-> st.prev_byte])

NonprintingRef(a, s) ==
    NonprintingFrom(a, s, [out |-> <<>>, index |-> 1, prev_byte |-> NL, prev_prev_byte |-> SPACE])

\* Where no store went past out_buf, the sink and the tracking bytes are what
\* the rule gives for the input read so far.
NonprintingRendering ==
    (args.show_nonprinting /\ pc \in {"run", "done"}) =>
        LET ref == NonprintingRef(args, Input)
        IN /\ sink = ref.out
           /\ prev_byte = ref.prev_byte
           /\ prev_prev_byte = ref.prev_prev_byte

\* C20: with show_nonprinting set, every input byte that squeeze_blank does
\* not drop is rendered by the rule: "M-" and the value less 128 for a byte
\* >= 128; then '^' and the value XOR 0x40 for a value below 32 or equal to
\* 127, with prev_byte and prev_prev_byte left as they were; otherwise the
\* value itself, which becomes prev_byte. A newline is written "^J" and the
\* byte after it does not start a line.
C20_NonprintingRendering ==
    args.show_nonprinting => (pc # "panicked" /\ NonprintingRendering)

\* C20's case without the overflow: "a\nb" under -n -v gives "     1 a^Jb",
\* the byte after the newline has no prefix and prev_byte is 'b'.
C20_NewlineCase ==
    /\ args = With({"show_nonprinting", "number_lines"})
    /\ pc = "done"
    /\ Input = <<97, NL, 97>>
    /\ sink = <<32, 32, 32, 32, 32, 49, 32, 97, 94, 74, 97>>
    /\ numbered = <<TRUE, FALSE, FALSE>>

====
